---------------------------- MODULE Spec2Model ----------------------------
(***************************************************************************)
(* The chat graph of ChatBotService (services/chat_bot_service.py):        *)
(*   START -> llm -> {call_api | END},                                     *)
(*   call_api -> {llm | limit_llm_request},  limit_llm_request -> END      *)
(* driven by the chat endpoint (routing/chat_bot_router.py), with the      *)
(* model gateway of repositories/gemini_repo.py and the tool catalog of    *)
(* repositories/task_manager_repo.py.                                      *)
(*                                                                         *)
(* One step of the model is one node of the graph up to its next await:    *)
(* a model call, one tool execution of the for-loop of                     *)
(* call_task_manager_api, the return of that loop, the forced turn, and    *)
(* the endpoint's return.                                                  *)
(***************************************************************************)
EXTENDS Integers, Sequences, FiniteSets, TLC

VARIABLES
    budget,         \* LIMIT_GEMINI_REQUEST_PER_MESSAGE, as configured
    messages,       \* ChatBotState.messages
    iterations,     \* ChatBotState.iterations
    token,          \* ChatBotState.token
    pc,             \* the node the graph runs next, or "END", "returned", "error"
    tool_messages,  \* the local list tool_messages of call_task_manager_api
    llm_log,        \* the calls made to llm_generate, in order
    tool_log,       \* the calls made to a tool's ainvoke, in order
    error,          \* the exception that ended the run, or NoError
    answer,         \* what the endpoint returned, or NoAnswer
    update_call,    \* one call of update_task / update_collection: its
                    \* arguments and, once it ran, the PATCH it sent
    cur,            \* the chat request the event loop is running (0: the only one)
    frames,         \* the state of every suspended chat request
    store,          \* the Task Manager's database: tasks and collections
    last_op         \* the request the Task Manager served last

\* the variables of one run of the chat graph
run == <<budget, messages, iterations, token, pc, tool_messages,
         llm_log, tool_log, error, answer>>

\* what a step of a run leaves alone
side == <<update_call, cur, frames, store, last_op>>

vars == <<run, side>>

---------------------------------------------------------------------------
\* Bounds of the model.

\* the largest configured budget explored
MaxBudget == 2
\* the most tool calls one model response carries
MaxToolCalls == 2
\* the most tool calls the model emits over one run
MaxRunToolCalls == 3

\* int(os.environ.get(...)) accepts every integer: zero and a negative
\* budget are configurations the program starts with.
Budgets == (-1)..MaxBudget

---------------------------------------------------------------------------
\* Values.

NoError == "none"
NoAnswer == <<"<no answer>">>
NoTokenArg == "<absent>"
ModelTokenArg == "token-chosen-by-model"
Credential == "bearer-credential"
NoName == "<none>"

\* The names the model may put in a tool call: catalog names and one name
\* outside the catalog (model output is untrusted).
GhostTool == "ghost_tool"
ModelNames == {"create_task", GhostTool}
ModelTokenArgs == {NoTokenArg, ModelTokenArg}

\* What the remote call of a tool does.
ToolOutcomes == {"2xx", "non2xx", "no_response"}

\* What the provider does on a model call.
ProviderOutcomes == {"response", "genai_error", "langchain_error", "other_exception"}

NumStr(n) == <<"1", "2", "3", "4", "5", "6", "7", "8", "9">>[n]

Max(S) == CHOOSE x \in S : \A y \in S : y <= x
Min(S) == CHOOSE x \in S : \A y \in S : x <= y

---------------------------------------------------------------------------
\* Messages (langchain_core.messages). content is the text as a sequence of
\* fragments, so that an f-string is a concatenation. id = 0 is id None.

SystemMessage(content) ==
    [role |-> "system", content |-> content, tool_calls |-> <<>>,
     tool_call_id |-> 0, name |-> NoName, id |-> 0]

HumanMessage(content) ==
    [role |-> "human", content |-> content, tool_calls |-> <<>>,
     tool_call_id |-> 0, name |-> NoName, id |-> 0]

AIMessage(content, tool_calls, id) ==
    [role |-> "ai", content |-> content, tool_calls |-> tool_calls,
     tool_call_id |-> 0, name |-> NoName, id |-> id]

ToolMessage(content, tool_call_id, name) ==
    [role |-> "tool", content |-> content, tool_calls |-> <<>>,
     tool_call_id |-> tool_call_id, name |-> name, id |-> 0]

setup_prompt == <<"Role: You are a Task Manager API assistant ...">>
user_text == <<"user request">>
limit_prompt ==
    HumanMessage(<<"The chatbot has reached its maximum number of LLM API calls ...">>)

\* "assign missing ids" of add_messages: each message without an id gets a
\* fresh uuid4. A uuid is modelled as a negative number, minus the place the
\* message has in the two lists laid end to end (base is the number of places
\* before seq); the ids the provider gives to its responses are positive.
AssignIds(seq, base) ==
    [k \in 1..Len(seq) |->
        IF seq[k].id = 0 THEN [seq[k] EXCEPT !.id = 0 - (base + k)] ELSE seq[k]]

\* The merge of add_messages, walking right in order: a message whose id is
\* already in the merged list replaces the message with that id, any other
\* is appended (and a later message of right with the same id replaces it).
Merge(left, right) ==
    LET ids(seq) == {seq[k].id : k \in 1..Len(seq)}
        final(id) == right[Max({j \in 1..Len(right) : right[j].id = id})]
        kept == [k \in 1..Len(left) |->
                    IF left[k].id \in ids(right) THEN final(left[k].id) ELSE left[k]]
        new == {k \in 1..Len(right) :
                   /\ right[k].id \notin ids(left)
                   /\ \A j \in 1..(k - 1) : right[j].id # right[k].id}
        nth(n) == CHOOSE k \in new : Cardinality({j \in new : j < k}) = n - 1
        added == [n \in 1..Cardinality(new) |-> final(right[nth(n)].id)]
    IN  kept \o added

\* The reducer of ChatBotState.messages. A message object that is in both
\* lists (a node appended it to state["messages"] and also returns it) gets
\* its id when left is walked, so right's reference carries the same id;
\* the object is recognised here as an id-less message equal to one of left.
add_messages_unshared(left, right) ==
    Merge(AssignIds(left, 0), AssignIds(right, Len(left)))

add_messages(left, right) ==
    LET l == AssignIds(left, 0)
        shared(m) == {k \in 1..Len(left) : left[k].id = 0 /\ left[k] = m}
        r0 == [k \in 1..Len(right) |->
                 IF right[k].id = 0 /\ shared(right[k]) # {}
                 THEN l[Max(shared(right[k]))] ELSE right[k]]
        r == AssignIds(r0, Len(left))
    IN  Merge(l, r)

Last(seq) == seq[Len(seq)]

---------------------------------------------------------------------------
\* The tool catalog (repositories/task_manager_repo.py, gemini_repo.tools).

tools == <<"create_task", "read_task", "task_list", "update_task", "delete_task",
           "create_collection", "read_collection", "collection_list",
           "update_collection", "delete_collection">>

funcs_nine == {"create_task", "read_task", "task_list", "update_task", "delete_task",
               "create_collection", "read_collection", "collection_list",
               "update_collection"}

funcs == {"create_task", "read_task", "task_list", "update_task", "delete_task",
          "create_collection", "read_collection", "collection_list",
          "update_collection", "delete_collection"}

NotImplemented == "NotImplementedError"

\* get_function_by_name: the function of that name, or the exception raised.
get_function_by_name_unchecked(name) == name
get_function_by_name(name) ==
    IF name \in funcs THEN name ELSE NotImplemented

\* One tool function (create_task, ...): what its call does under a given
\* outcome of the remote request. On an httpx.HTTPError the handler logs
\* response.json() before it returns str(e); when no response was received
\* (timeout, connection error) response is unbound there and the handler
\* itself raises.
tool_function(name, outcome) ==
    CASE outcome = "2xx"         -> [raised |-> FALSE, value |-> <<"response.json()">>]
      [] outcome = "non2xx"      -> [raised |-> FALSE, value |-> <<"str(HTTPStatusError)">>]
      [] outcome = "no_response" -> [raised |-> TRUE,  value |-> <<"str(UnboundLocalError)">>]

---------------------------------------------------------------------------
\* The model gateway (repositories/gemini_repo.py).

\* The tool calls the model may put in one response of the given turn.
ToolCallsOf(turn, k) ==
    {[j \in 1..k |-> [id |-> 10 * turn + j, name |-> f[j][1],
                      args |-> [token |-> f[j][2]]]] :
        f \in [1..k -> ModelNames \X ModelTokenArgs]}

EmittedToolCalls(msgs) ==
    Cardinality({c \in (1..Len(msgs)) \X (1..MaxRunToolCalls) :
                    c[2] <= Len(msgs[c[1]].tool_calls)})

\* The responses the provider may give: with the tools bound a response may
\* carry tool calls, without them it carries none.
ProviderResponses(msgs, turn, with_tools) ==
    LET room == Min({MaxToolCalls, MaxRunToolCalls - EmittedToolCalls(msgs)})
        ks == IF with_tools THEN 0..room ELSE {0}
    IN  {AIMessage(<<"model text ", NumStr(turn)>>, tcs, turn) :
            tcs \in UNION {ToolCallsOf(turn, k) : k \in ks}}

\* llm_generate: what the caller gets for a provider outcome: the response,
\* None for the two exception classes it catches, and any other exception
\* propagates to the caller.
llm_generate(outcome, response) ==
    CASE outcome = "response"        -> [returns |-> "message", message |-> response]
      [] outcome = "genai_error"     -> [returns |-> "None", message |-> response]
      [] outcome = "langchain_error" -> [returns |-> "None", message |-> response]
      [] outcome = "other_exception" -> [returns |-> "raise", message |-> response]

\* with_tools as call_llm_with_tools passes it: not at all, so the default.
llm_with_tools == TRUE

\* with_tools as limit_llm_request_exceeded passes it: not at all either.
limit_with_tools == TRUE

---------------------------------------------------------------------------
\* The routing functions of the graph.

resolve_model_response_inverted(msgs) ==
    IF Len(Last(msgs).tool_calls) > 0 THEN "END" ELSE "call_api"

resolve_model_response(msgs) ==
    IF ~(Len(Last(msgs).tool_calls) > 0) THEN "END" ELSE "call_api"

check_gemini_limit_request_ends(its) ==
    IF its <= 0 THEN "END" ELSE "llm"

check_gemini_limit_request_early(its) ==
    IF its <= 1 THEN "limit_llm_request" ELSE "llm"

check_gemini_limit_request_strict(its) ==
    IF its < 0 THEN "limit_llm_request" ELSE "llm"

check_gemini_limit_request_exact(its) ==
    IF its = 0 THEN "limit_llm_request" ELSE "llm"

check_gemini_limit_request(its) ==
    IF its <= 0 THEN "limit_llm_request" ELSE "llm"

\* workflow.add_edge("limit_llm_request", END)
limit_edge_conditional(msgs) == resolve_model_response(msgs)
limit_edge(msgs) == "END"

---------------------------------------------------------------------------
\* The update tools: update_task and update_collection.

\* bound: the longest updated_fields list explored
MaxUpdatedFields == 2

None == "None"
\* a keyword argument the caller did not pass
Unset == "<not passed>"
KeyError == "KeyError"

\* update_task(..., title=None, description=None, completed=False,
\*             deadline=None, collection_id=None)
TaskDefaults ==
    [title |-> None, description |-> None, completed |-> "False",
     deadline |-> None, collection_id |-> None]

\* update_collection(..., name=None)
CollectionDefaults == [name |-> None]

UpdateDefaults(tool_name) ==
    IF tool_name = "update_task" THEN TaskDefaults ELSE CollectionDefaults

\* The values a caller may pass for a field, or none (Unset).
PassedValues(field) ==
    CASE field = "title" -> {Unset, "new title"}
      [] field = "description" -> {Unset, "new description"}
      [] field = "completed" -> {Unset, "True", "False"}
      [] field = "deadline" -> {Unset, "2026-01-31T12:00:00Z"}
      [] field = "collection_id" -> {Unset, "7"}
      [] field = "name" -> {Unset, "new name"}

\* The names a caller may list in updated_fields: the keys of data and names
\* that are none of them (updated_fields is list[str], nothing checks it).
ListedNames(tool_name) == DOMAIN UpdateDefaults(tool_name) \cup {"task_id", "id"}

SeqsUpTo(S, n) == UNION {[1..k -> S] : k \in 0..n}

Range(seq) == {seq[i] : i \in 1..Len(seq)}

\* data = {"title": title, ...}: every parameter with the value it is bound
\* to, the caller's or the parameter's default
update_data(defaults, passed) ==
    [f \in DOMAIN defaults |-> IF passed[f] = Unset THEN defaults[f] ELSE passed[f]]

NoBody == [f \in {} |-> None]

\* data_to_update = {field: data[field] for field in updated_fields}
data_to_update_all(data, updated_fields) ==
    [raised |-> FALSE, body |-> data]

data_to_update_known(data, updated_fields) ==
    [raised |-> FALSE,
     body |-> [f \in Range(updated_fields) \cap DOMAIN data |-> data[f]]]

data_to_update(data, updated_fields) ==
    IF \E i \in 1..Len(updated_fields) : updated_fields[i] \notin DOMAIN data
    THEN [raised |-> TRUE, body |-> NoBody]
    ELSE [raised |-> FALSE, body |-> [f \in Range(updated_fields) |-> data[f]]]

\* The keyword arguments of one call: for every field a value, or Unset.
PassedArgs(tool_name) ==
    LET fields == DOMAIN UpdateDefaults(tool_name)
    IN  {p \in [fields -> UNION {PassedValues(f) : f \in fields}] :
            \A f \in fields : p[f] \in PassedValues(f)}

NoUpdateCall ==
    [tool |-> NoName, updated_fields |-> <<>>, passed |-> NoBody, status |-> "none",
     sent |-> FALSE, body |-> NoBody, raised |-> FALSE, result |-> <<>>]

\* The calls of the update tools: which tool, the updated_fields list and the
\* keyword arguments passed.
UpdateCalls ==
    {[NoUpdateCall EXCEPT !.tool = t, !.updated_fields = u, !.passed = p,
                          !.status = "called"] :
        <<t, u, p>> \in UNION {
            {tn} \X SeqsUpTo(ListedNames(tn), MaxUpdatedFields) \X PassedArgs(tn)
            : tn \in {"update_task", "update_collection"}}}

---------------------------------------------------------------------------
\* The Task Manager behind the tools: the CRUD endpoints of routing/, the
\* services and the repositories over the SQLite database. A task is
\* [id, user_id, collection_id] (collection_id 0: None), a collection is
\* [id, user_id]. The engine of database/database.py does not switch
\* foreign keys on, so a collection_id is stored as given. The other columns
\* (title, name, deadline, completed) are left out, and with them
\* update_collection, which writes the name only.

\* bounds: the largest task id and the largest collection id
MaxTasks == 2
MaxCollections == 1

Users == {"A", "B"}
TaskIds == 1..MaxTasks
\* the ids a request may list: those of TaskIds and one no task ever has
ListedTaskIds == 1..(MaxTasks + 1)
CollectionIds == 1..MaxCollections

EmptyStore == [tasks |-> {}, collections |-> {}]

\* HTTP status of a response
Status200 == 200
Status404 == 404

\* a response: its status and the rows its body shows
Response(status, tasks, collections) ==
    [status |-> status, tasks |-> tasks, collections |-> collections]

NotFound == Response(Status404, {}, {})

\* INTEGER PRIMARY KEY: the next rowid is the largest one plus one
NextId(rows) == Max({r.id : r \in rows} \cup {0}) + 1

\* TaskRepository.get_task_by_id: .where(id == task_id).where(user_id == user_id)
get_task_by_id(s, user_id, task_id) ==
    {t \in s.tasks : t.id = task_id /\ t.user_id = user_id}

\* selectinload(TaskORM.collection): the collection row of the task's
\* collection_id
collection_of(s, t) == {c \in s.collections : c.id = t.collection_id}

\* TaskRepository.create_task: model_validate(task), user_id, add, commit
create_task(s, user_id, collection_id) ==
    LET t == [id |-> NextId(s.tasks), user_id |-> user_id, collection_id |-> collection_id]
        after == [s EXCEPT !.tasks = @ \cup {t}]
    IN  [store |-> after, response |-> Response(Status200, {t}, collection_of(after, t))]

\* TaskService.get_task
read_task_removing(s, user_id, task_id) ==
    LET found == get_task_by_id(s, user_id, task_id)
    IN  [store |-> [s EXCEPT !.tasks = @ \ found],
         response |-> IF found = {} THEN NotFound
                      ELSE Response(Status200, found,
                                    UNION {collection_of(s, t) : t \in found})]

read_task(s, user_id, task_id) ==
    LET found == get_task_by_id(s, user_id, task_id)
    IN  [store |-> s,
         response |-> IF found = {} THEN NotFound
                      ELSE Response(Status200, found,
                                    UNION {collection_of(s, t) : t \in found})]

\* TaskRepository.get_all_tasks: .where(user_id == user_id); no task of the
\* model is completed, and the page holds them all
task_list(s, user_id) ==
    [store |-> s,
     response |-> Response(Status200, {t \in s.tasks : t.user_id = user_id}, {})]

\* TaskRepository.update_task: get_task_by_id, sqlmodel_update(task_data)
store_update_task(s, user_id, task_id, collection_id) ==
    LET found == get_task_by_id(s, user_id, task_id)
        updated == {[t EXCEPT !.collection_id = collection_id] : t \in found}
        after == [s EXCEPT !.tasks = (@ \ found) \cup updated]
    IN  IF found = {} THEN [store |-> s, response |-> NotFound]
        ELSE [store |-> after,
              response |-> Response(Status200, updated,
                                    UNION {collection_of(after, t) : t \in updated})]

\* TaskRepository.delete_task
delete_task(s, user_id, task_id) ==
    LET found == get_task_by_id(s, user_id, task_id)
    IN  IF found = {} THEN [store |-> s, response |-> NotFound]
        ELSE [store |-> [s EXCEPT !.tasks = @ \ found],
              response |-> Response(Status200, {}, {})]

\* selectinload(TaskCollectionORM.tasks): the task rows whose collection_id
\* is the collection's id
tasks_of(s, c) == {t \in s.tasks : t.collection_id = c.id}

\* CollectionRepository.get_collection_by_id:
\* .where(id == collection_id).where(user_id == user_id)
get_collection_by_id(s, user_id, collection_id) ==
    {c \in s.collections : c.id = collection_id /\ c.user_id = user_id}

\* TaskRepository.verify_tasks_exist: the ids of the user's tasks among task_ids
verify_tasks_exist(s, user_id, task_ids) ==
    {t.id : t \in {x \in s.tasks : x.user_id = user_id /\ x.id \in task_ids}}

\* TaskRepository.bulk_update_tasks_collection: update ... where user_id and
\* id in task_ids
bulk_update_tasks_collection(s, user_id, task_ids, collection_id) ==
    [s EXCEPT !.tasks =
        {IF t.user_id = user_id /\ t.id \in task_ids
         THEN [t EXCEPT !.collection_id = collection_id] ELSE t : t \in @}]

\* CollectionService.create_collection: create, verify and bulk-update when
\* task ids are given, then load the collection with its tasks
create_collection_listed(s, user_id, task_ids) ==
    LET c == [id |-> NextId(s.collections), user_id |-> user_id]
        created == [s EXCEPT !.collections = @ \cup {c}]
        after == [created EXCEPT !.tasks =
                     {IF t.id \in task_ids
                      THEN [t EXCEPT !.collection_id = c.id] ELSE t : t \in @}]
    IN  [store |-> after, response |-> Response(Status200, tasks_of(after, c), {c})]

create_collection(s, user_id, task_ids) ==
    LET c == [id |-> NextId(s.collections), user_id |-> user_id]
        created == [s EXCEPT !.collections = @ \cup {c}]
        after == IF task_ids # {}
                 THEN bulk_update_tasks_collection(
                          created, user_id,
                          verify_tasks_exist(created, user_id, task_ids), c.id)
                 ELSE created
    IN  [store |-> after, response |-> Response(Status200, tasks_of(after, c), {c})]

\* CollectionService.get_collection_by_id
read_collection(s, user_id, collection_id) ==
    LET found == get_collection_by_id(s, user_id, collection_id)
    IN  [store |-> s,
         response |-> IF found = {} THEN NotFound
                      ELSE Response(Status200,
                                    UNION {tasks_of(s, c) : c \in found}, found)]

\* CollectionRepository.get_collections: .where(user_id == user_id)
collection_list(s, user_id) ==
    [store |-> s,
     response |-> Response(Status200, {}, {c \in s.collections : c.user_id = user_id})]

\* CollectionRepository.delete_collection: the session deletes the collection
\* and, by the relationship's cascade_delete, the tasks loaded with it
delete_collection(s, user_id, collection_id) ==
    LET found == get_collection_by_id(s, user_id, collection_id)
    IN  IF found = {} THEN [store |-> s, response |-> NotFound]
        ELSE [store |-> [tasks |-> s.tasks \ UNION {tasks_of(s, c) : c \in found},
                         collections |-> s.collections \ found],
              response |-> Response(Status200, {}, {})]

\* A request to the Task Manager: the endpoint and its arguments (id: the
\* task or collection of the path, collection_id and tasks: of the body).
Request(op, id, collection_id, task_ids) ==
    [op |-> op, id |-> id, collection_id |-> collection_id, tasks |-> task_ids]

Requests_of(op) ==
    CASE op = "create_task" ->
            {Request(op, 0, c, {}) : c \in {0} \cup CollectionIds}
      [] op \in {"read_task", "delete_task"} ->
            {Request(op, t, 0, {}) : t \in TaskIds}
      [] op = "update_task" ->
            {Request(op, t, c, {}) : t \in TaskIds, c \in {0} \cup CollectionIds}
      [] op = "create_collection" ->
            {Request(op, 0, 0, ids) : ids \in SUBSET ListedTaskIds}
      [] op \in {"read_collection", "delete_collection"} ->
            {Request(op, c, 0, {}) : c \in CollectionIds}
      [] OTHER -> {Request(op, 0, 0, {})}

ReadOps == {"read_task", "task_list", "read_collection", "collection_list"}
WriteOps == {"create_task", "update_task", "delete_task",
             "create_collection", "delete_collection"}

\* The endpoint serving a request of user_id at store s: the store after it
\* and its response.
serve(s, user_id, r) ==
    CASE r.op = "create_task" -> create_task(s, user_id, r.collection_id)
      [] r.op = "read_task" -> read_task(s, user_id, r.id)
      [] r.op = "task_list" -> task_list(s, user_id)
      [] r.op = "update_task" -> store_update_task(s, user_id, r.id, r.collection_id)
      [] r.op = "delete_task" -> delete_task(s, user_id, r.id)
      [] r.op = "create_collection" -> create_collection(s, user_id, r.tasks)
      [] r.op = "read_collection" -> read_collection(s, user_id, r.id)
      [] r.op = "collection_list" -> collection_list(s, user_id)
      [] r.op = "delete_collection" -> delete_collection(s, user_id, r.id)

\* what last_op keeps of a served request: the endpoint and the listed ids
NoOp == [op |-> "none", tasks |-> {}]

\* One request served: the rows stay within the id bounds.
endpoint(op) ==
    \E user_id \in Users, r \in Requests_of(op) :
        LET served == serve(store, user_id, r)
        IN  /\ \A t \in served.store.tasks : t.id \in TaskIds
            /\ \A c \in served.store.collections : c.id \in CollectionIds
            /\ store' = served.store
            /\ last_op' = [op |-> op, tasks |-> r.tasks]
            /\ UNCHANGED <<run, update_call, cur, frames>>

POST_tasks_create == endpoint("create_task")
GET_tasks_id == endpoint("read_task")
GET_tasks == endpoint("task_list")
PATCH_tasks_update == endpoint("update_task")
DELETE_tasks_delete == endpoint("delete_task")
POST_collections_create == endpoint("create_collection")
GET_collections_id == endpoint("read_collection")
GET_collections == endpoint("collection_list")
DELETE_collections_delete == endpoint("delete_collection")

---------------------------------------------------------------------------
\* Pieces of call_task_manager_api.

\* tool_args["token"] = state["token"]
inject_token_if_absent(tool_args, tok) ==
    IF tool_args.token = NoTokenArg THEN [tool_args EXCEPT !.token = tok] ELSE tool_args
inject_token(tool_args, tok) == [tool_args EXCEPT !.token = tok]

\* try: result = await function_to_call.ainvoke(tool_args)
\* except Exception as e: result = str(e)
contained_not(res) == [aborts |-> res.raised, result |-> res.value]
contained(res) == [aborts |-> FALSE, result |-> res.value]

\* ToolMessage(content=f"Function result is: {result}",
\*             tool_call_id=tool_call.get("id"), name=tool_name)
tool_message_for_unlinked(tool_call, result) ==
    ToolMessage(<<"Function result is: ">> \o result, 0, tool_call.name)

tool_message_for(tool_call, result) ==
    ToolMessage(<<"Function result is: ">> \o result, tool_call.id, tool_call.name)

\* for tool_call in last_message.tool_calls: ... await ...ainvoke(tool_args):
\* the tool calls the loop may run next when done of them have been awaited
next_tool_call_unordered(tool_calls, done) == (done + 1)..Len(tool_calls)
next_tool_call(tool_calls, done) == {done + 1}

\* tool_messages.append(...)
append_tool_message_front(list, m) == <<m>> \o list
append_tool_message(list, m) == Append(list, m)

\* iterations = state["iterations"] - 1
decrement_skipped(its) == its
decrement_twice(its) == its - 2
decrement(its) == its - 1

HTTP500 == "HTTPException(500)"

\* call_llm_with_tools: if response is None: raise HTTPException(500)
llm_failure_route_end == "END"
llm_failure_route_retry == "llm"
llm_failure_route == "error"

\* limit_llm_request_exceeded: if response is None: raise HTTPException(500)
limit_failure_route_swallow == "END"
limit_failure_route == "error"

ProviderException == "unhandled provider exception"
ToolException == "unhandled tool exception"

---------------------------------------------------------------------------
\* The run.

\* chat(): graph.ainvoke({"messages": [system_prompt, user_message],
\*   "iterations": LIMIT_GEMINI_REQUEST_PER_MESSAGE, "token": ...}); START -> llm
Init ==
    /\ budget \in Budgets
    /\ messages = add_messages(<<>>, <<SystemMessage(setup_prompt), HumanMessage(user_text)>>)
    /\ iterations = budget
    /\ token = Credential
    /\ pc = "llm"
    /\ tool_messages = <<>>
    /\ llm_log = <<>>
    /\ tool_log = <<>>
    /\ error = NoError
    /\ answer = NoAnswer
    /\ update_call = NoUpdateCall
    /\ cur = 0
    /\ frames = <<>>
    /\ store = EmptyStore
    /\ last_op = NoOp

\* node "llm"
call_llm_with_tools ==
    /\ pc = "llm"
    /\ \E outcome \in ProviderOutcomes :
       \E response \in ProviderResponses(messages, Len(llm_log) + 1, llm_with_tools) :
          LET r == llm_generate(outcome, response)
          IN  /\ llm_log' = Append(llm_log, [node |-> "llm", with_tools |-> llm_with_tools,
                                             seen |-> messages, returned |-> r.returns])
              /\ CASE r.returns = "message" ->
                        /\ messages' = add_messages(messages, <<r.message>>)
                        /\ iterations' = decrement(iterations)
                        /\ pc' = resolve_model_response(messages')
                        /\ error' = error
                   [] r.returns = "None" ->
                        /\ pc' = llm_failure_route
                        /\ error' = HTTP500
                        /\ UNCHANGED <<messages, iterations>>
                   [] r.returns = "raise" ->
                        /\ pc' = "error"
                        /\ error' = ProviderException
                        /\ UNCHANGED <<messages, iterations>>
    /\ UNCHANGED <<budget, token, tool_messages, tool_log, answer>>
    /\ UNCHANGED side

\* node "call_api": one pass of the for-loop over last_message.tool_calls
call_task_manager_api_step ==
    /\ pc = "call_api"
    /\ Len(tool_messages) < Len(Last(messages).tool_calls)
    /\ \E i \in next_tool_call(Last(messages).tool_calls, Len(tool_messages)) :
       LET tool_call == Last(messages).tool_calls[i]
           function_to_call == get_function_by_name(tool_call.name)
       IN  IF function_to_call = NotImplemented
           THEN /\ pc' = "error"
                /\ error' = NotImplemented
                /\ tool_messages' = <<>>
                /\ UNCHANGED <<messages, tool_log>>
           ELSE \E outcome \in ToolOutcomes :
                   LET tool_args == inject_token(tool_call.args, token)
                       res == tool_function(function_to_call, outcome)
                       got == contained(res)
                   IN  /\ messages' = [messages EXCEPT
                                         ![Len(messages)].tool_calls[i].args = tool_args]
                       /\ tool_log' = Append(tool_log,
                              [name |-> function_to_call, args |-> tool_args,
                               call_id |-> tool_call.id, outcome |-> outcome,
                               raised |-> res.raised])
                       /\ IF got.aborts
                          THEN /\ pc' = "error"
                               /\ error' = ToolException
                               /\ tool_messages' = <<>>
                          ELSE /\ tool_messages' = append_tool_message(tool_messages,
                                      tool_message_for(tool_call, got.result))
                               /\ UNCHANGED <<pc, error>>
    /\ UNCHANGED <<budget, iterations, token, llm_log, answer>>
    /\ UNCHANGED side

\* node "call_api": the loop is over; return {"messages": tool_messages},
\* then the conditional edge check_gemini_limit_request
call_task_manager_api_return ==
    /\ pc = "call_api"
    /\ Len(tool_messages) = Len(Last(messages).tool_calls)
    /\ messages' = add_messages(messages, tool_messages)
    /\ tool_messages' = <<>>
    /\ pc' = check_gemini_limit_request(iterations)
    /\ UNCHANGED <<budget, iterations, token, llm_log, tool_log, error, answer>>
    /\ UNCHANGED side

\* node "limit_llm_request"
limit_llm_request_exceeded ==
    /\ pc = "limit_llm_request"
    /\ LET appended == Append(messages, limit_prompt)   \* messages.append(limit_prompt)
       IN  \E outcome \in ProviderOutcomes :
           \E response \in ProviderResponses(appended, Len(llm_log) + 1, limit_with_tools) :
              LET r == llm_generate(outcome, response)
              IN  /\ llm_log' = Append(llm_log,
                         [node |-> "limit_llm_request", with_tools |-> limit_with_tools,
                          seen |-> appended, returned |-> r.returns])
                  /\ CASE r.returns = "message" ->
                            /\ messages' = add_messages(appended, <<limit_prompt, r.message>>)
                            /\ pc' = limit_edge(messages')
                            /\ error' = error
                       [] r.returns = "None" ->
                            /\ messages' = appended
                            /\ pc' = limit_failure_route
                            /\ error' = HTTP500
                       [] r.returns = "raise" ->
                            /\ messages' = appended
                            /\ pc' = "error"
                            /\ error' = ProviderException
    /\ UNCHANGED <<budget, iterations, token, tool_messages, tool_log, answer>>
    /\ UNCHANGED side

\* chat(): return result.get("messages")[-1].content
chat_return ==
    /\ pc = "END"
    /\ answer' = Last(messages).content
    /\ pc' = "returned"
    /\ UNCHANGED <<budget, messages, iterations, token, tool_messages,
                   llm_log, tool_log, error>>
    /\ UNCHANGED side

Next ==
    \/ call_llm_with_tools
    \/ call_task_manager_api_step
    \/ call_task_manager_api_return
    \/ limit_llm_request_exceeded
    \/ chat_return

Spec == Init /\ [][Next]_vars

\* Every await of a run returns or raises, and the event loop then runs the
\* rest of the node: an enabled step is eventually taken.
FairSpec == Spec /\ WF_vars(Next)

Terminated == pc \in {"returned", "error"}

---------------------------------------------------------------------------
\* Two chat requests on one event loop. Each request is a coroutine of its
\* own: chat() and the nodes it awaits. The variables of a run hold the state
\* of the request that is running; the others are suspended at an await.

Requests == {1, 2}

\* current_user_data[1] of each request: the bearer token it came with
TokenOf(r) == <<Credential, "bearer-credential-of-another-user">>[r]

\* message.message of each request
UserTextOf(r) == <<user_text, <<"request of another user">> >>[r]

\* chat(): the state a request's graph.ainvoke works on is a dict built for
\* that call
state_key_shared(r) == 1
state_key(r) == r

StateKeys == {state_key(r) : r \in Requests}

CurrentFrame ==
    [budget |-> budget, messages |-> messages, iterations |-> iterations,
     token |-> token, pc |-> pc, tool_messages |-> tool_messages,
     llm_log |-> llm_log, tool_log |-> tool_log, error |-> error, answer |-> answer]

\* chat(): the initial state of request r; the budget b is the process's
InitialMessages(r) ==
    add_messages(<<>>, <<SystemMessage(setup_prompt), HumanMessage(UserTextOf(r))>>)

InitialFrame(r, b) ==
    [budget |-> b, messages |-> InitialMessages(r), iterations |-> b,
     token |-> TokenOf(r), pc |-> "llm", tool_messages |-> <<>>,
     llm_log |-> <<>>, tool_log |-> <<>>, error |-> NoError, answer |-> NoAnswer]

\* the place of a state that is held by the running request
Loaded ==
    [budget |-> 0, messages |-> <<>>, iterations |-> 0,
     token |-> NoTokenArg, pc |-> "running", tool_messages |-> <<>>,
     llm_log |-> <<>>, tool_log |-> <<>>, error |-> NoError, answer |-> NoAnswer]

Load(f) ==
    /\ budget' = f.budget
    /\ messages' = f.messages
    /\ iterations' = f.iterations
    /\ token' = f.token
    /\ pc' = f.pc
    /\ tool_messages' = f.tool_messages
    /\ llm_log' = f.llm_log
    /\ tool_log' = f.tool_log
    /\ error' = f.error
    /\ answer' = f.answer

\* The state of request r, running or suspended.
FrameOf(r) == IF r = cur THEN CurrentFrame ELSE frames[state_key(r)]

\* Request 1 arrived first and runs; request 2 has arrived and waits for the
\* event loop. LIMIT_GEMINI_REQUEST_PER_MESSAGE is one value for the process.
ConcInit ==
    /\ cur = 1
    /\ \E b \in {1} \cap Budgets :
          /\ frames = [k \in StateKeys |->
                          IF k = state_key(cur) THEN Loaded
                          ELSE InitialFrame(Max({r \in Requests : state_key(r) = k}), b)]
          /\ LET f == InitialFrame(1, b)
             IN  /\ budget = f.budget
                 /\ messages = f.messages
                 /\ iterations = f.iterations
                 /\ token = f.token
                 /\ pc = f.pc
                 /\ tool_messages = f.tool_messages
                 /\ llm_log = f.llm_log
                 /\ tool_log = f.tool_log
                 /\ error = f.error
                 /\ answer = f.answer
    /\ update_call = NoUpdateCall
    /\ store = EmptyStore
    /\ last_op = NoOp

\* The event loop suspends the running request at its await and resumes
\* request r, which has steps left.
Switch(r) ==
    /\ r \in Requests \ {cur}
    /\ LET saved == [frames EXCEPT ![state_key(cur)] = CurrentFrame]
           f == saved[state_key(r)]
       IN  /\ f.pc \notin {"returned", "error"}
           /\ Load(f)
           /\ frames' = [saved EXCEPT ![state_key(r)] = Loaded]
    /\ cur' = r
    /\ UNCHANGED <<update_call, store, last_op>>

switch_request == \E r \in Requests : Switch(r)

\* The environment of the two requests: the provider answers, the model
\* names tools of the catalog, the remote calls succeed. What a request does
\* when they do not is the same as for one request alone.
Calm ==
    /\ error = NoError
    /\ \A t \in 1..Len(tool_log) : tool_log[t].outcome = "2xx"
    /\ \A i \in 1..Len(Last(messages).tool_calls) :
          Last(messages).tool_calls[i].name \in funcs

ConcNext ==
    \/ (call_llm_with_tools /\ Calm')
    \/ (call_task_manager_api_step /\ Calm')
    \/ call_task_manager_api_return
    \/ (limit_llm_request_exceeded /\ Calm')
    \/ chat_return
    \/ switch_request

ConcSpec == ConcInit /\ [][ConcNext]_vars

---------------------------------------------------------------------------
\* The update tools on their own: every call of UpdateCalls, applied once.

\* no run of the chat graph is going on
NoRun ==
    /\ budget = 0
    /\ messages = <<>>
    /\ iterations = 0
    /\ token = Credential
    /\ pc = "no run"
    /\ tool_messages = <<>>
    /\ llm_log = <<>>
    /\ tool_log = <<>>
    /\ error = NoError
    /\ answer = NoAnswer

UpdateInit ==
    /\ NoRun
    /\ update_call \in UpdateCalls
    /\ cur = 0
    /\ frames = <<>>
    /\ store = EmptyStore
    /\ last_op = NoOp

\* The body of update_task / update_collection: data, data_to_update, then
\* client.patch(..., json=data_to_update, ...) and the tool's return.
update_tool(tool_name) ==
    /\ update_call.status = "called"
    /\ update_call.tool = tool_name
    /\ LET data == update_data(UpdateDefaults(tool_name), update_call.passed)
           d == data_to_update(data, update_call.updated_fields)
       IN  IF d.raised
           THEN update_call' = [update_call EXCEPT !.status = "done", !.raised = TRUE,
                                                   !.result = <<KeyError>>]
           ELSE \E outcome \in ToolOutcomes :
                   LET res == tool_function(tool_name, outcome)
                   IN  update_call' = [update_call EXCEPT
                                          !.status = "done", !.sent = TRUE, !.body = d.body,
                                          !.raised = res.raised, !.result = res.value]
    /\ UNCHANGED <<run, cur, frames, store, last_op>>

update_task == update_tool("update_task")

update_collection == update_tool("update_collection")

UpdateNext ==
    \/ update_task
    \/ update_collection

UpdateSpec == UpdateInit /\ [][UpdateNext]_vars

\* The Task Manager alone: no chat request runs, requests of both users are
\* served one after the other.
StoreInit ==
    /\ NoRun
    /\ update_call = NoUpdateCall
    /\ cur = 0
    /\ frames = <<>>
    /\ store = EmptyStore
    /\ last_op = NoOp

StoreNext ==
    \/ POST_tasks_create
    \/ GET_tasks_id
    \/ GET_tasks
    \/ PATCH_tasks_update
    \/ DELETE_tasks_delete
    \/ POST_collections_create
    \/ GET_collections_id
    \/ GET_collections
    \/ DELETE_collections_delete

StoreSpec == StoreInit /\ [][StoreNext]_vars


---------------------------------------------------------------------------
\* Properties.

\* The ids of the messages of the history are pairwise different, as uuids
\* and run ids are.
UniqueIds ==
    \A p, q \in 1..Len(messages) :
        (p # q) => messages[p].id # messages[q].id

\* The for-loop of call_task_manager_api is over: the node returns next and
\* check_gemini_limit_request evaluates state["iterations"].
AtLimitCheck ==
    /\ pc = "call_api"
    /\ Len(tool_messages) = Len(Last(messages).tool_calls)

IsToolMessage(m) == m.role = "tool"

LimitCalls == {k \in 1..Len(llm_log) : llm_log[k].node = "limit_llm_request"}

\* C1: for every configured budget N >= 1, whatever the model answers and
\* whatever the tools do, the run terminates (the endpoint returns or the run
\* aborts), and it never makes more than N+1 calls to llm_generate.
C1_Termination ==
    (budget >= 1) => (<>Terminated /\ [](Len(llm_log) <= budget + 1))

\* a run with budget 2 that used all three model calls and returned
C1_Witness ==
    /\ pc = "returned"
    /\ budget = 2
    /\ Len(llm_log) = budget + 1

\* C2: the model call of node limit_llm_request is made with tools disabled
\* (with_tools = False).
C2_ForcedTurnWithoutTools ==
    \A k \in LimitCalls : llm_log[k].with_tools = FALSE

\* C3: once limit_llm_request_exceeded has returned, the run goes to END and
\* from there only to the endpoint's return: no tool is executed and no model
\* call is made any more, also when the forced response carries tool calls.
C3_LimitGoesToEnd ==
    [][ /\ (pc = "limit_llm_request" /\ Last(llm_log').returned = "message")
            => pc' = "END"
        /\ (LimitCalls # {} /\ pc # "limit_llm_request")
            => (tool_log' = tool_log /\ llm_log' = llm_log /\ messages' = messages
                /\ pc' \in {"returned", "error"}) ]_vars

\* the forced response carried tool calls, and the run returned all the same
C3_Witness ==
    /\ pc = "returned"
    /\ LimitCalls # {}
    /\ Len(Last(messages).tool_calls) > 0
    /\ answer = Last(messages).content

\* The ToolMessages of the Assistant message at position p of the history:
\* exactly one per tool call, right behind it, in the order of the calls.
AnsweredInOrder(p) ==
    LET calls == messages[p].tool_calls
        k == Len(calls)
    IN  /\ p + k <= Len(messages)
        /\ \A i \in 1..k :
              /\ IsToolMessage(messages[p + i])
              /\ messages[p + i].tool_call_id = calls[i].id
              /\ messages[p + i].name = calls[i].name
        /\ (p + k < Len(messages) => ~IsToolMessage(messages[p + k + 1]))

\* C4: an Assistant message with k tool calls that call_task_manager_api has
\* processed to its return is followed by exactly k ToolMessages, the i-th
\* carrying the tool_call_id and name of the i-th call, whichever calls
\* succeeded or failed; the list being built in the loop has the same shape.
C4_ToolResultsInOrder ==
    /\ \A p \in 1..(Len(messages) - 1) :
          (messages[p].role = "ai" /\ Len(messages[p].tool_calls) > 0)
              => AnsweredInOrder(p)
    /\ pc = "call_api" =>
          /\ Len(tool_messages) <= Len(Last(messages).tool_calls)
          /\ \A i \in 1..Len(tool_messages) :
                /\ tool_messages[i].tool_call_id = Last(messages).tool_calls[i].id
                /\ tool_messages[i].name = Last(messages).tool_calls[i].name

\* a processed turn of two tool calls, the first failed and the second succeeded
C4_Witness ==
    \E p \in 1..(Len(messages) - 2) :
        /\ messages[p].role = "ai"
        /\ Len(messages[p].tool_calls) = 2
        /\ IsToolMessage(messages[p + 1]) /\ IsToolMessage(messages[p + 2])
        /\ messages[p + 1].content = <<"Function result is: ", "str(UnboundLocalError)">>
        /\ messages[p + 2].content = <<"Function result is: ", "response.json()">>
        /\ messages[p + 1].tool_call_id # messages[p + 2].tool_call_id

\* C5: iterations decreases by exactly 1 on each step of node llm that
\* updates the state (a call that raises ends the run with no state update),
\* is left unchanged by every step of call_task_manager_api, however many
\* tools it executes, and by limit_llm_request_exceeded, and never increases.
C5_BudgetMonotone ==
    [][ /\ (pc = "llm" /\ pc' # "error") => iterations' = iterations - 1
        /\ pc = "call_api" => iterations' = iterations
        /\ pc = "limit_llm_request" => iterations' = iterations
        /\ iterations' <= iterations
        /\ iterations' < iterations => pc = "llm" ]_vars

\* two model turns and two or more tool executions took the counter from 2 to 0
C5_Witness ==
    /\ budget = 2
    /\ iterations = 0
    /\ Len(tool_log) >= 2
    /\ AtLimitCheck

\* C6 as stated: check_gemini_limit_request never evaluates a negative
\* counter, whatever budget is configured.
C6_NeverNegativeAtCheck ==
    AtLimitCheck => iterations >= 0

\* C6 amended: for every configured budget N >= 1 the counter is not negative
\* when check_gemini_limit_request evaluates it, and the check routes to
\* limit_llm_request only at exactly 0.
C6_NeverNegativeAtCheckPositiveBudget ==
    (budget >= 1 /\ AtLimitCheck) =>
        /\ iterations >= 0
        /\ (check_gemini_limit_request(iterations) = "limit_llm_request"
               => iterations = 0)

\* the check is about to fire at 0 after the last permitted model turn
C6_Witness ==
    /\ budget >= 1
    /\ AtLimitCheck
    /\ iterations = 0
    /\ Len(llm_log) = budget

Failed(entry) == entry.outcome # "2xx"

\* C7: a failed tool execution (an error string returned by the tool, or an
\* exception raised by it) does not abort the run: the step appends a
\* ToolMessage with non-empty content for that call and stays in call_api,
\* the node's return routes by the counter alone, to llm or limit_llm_request,
\* and when the next model call is up every executed tool call of the run,
\* failed or not, has its ToolMessage in the history that call will see.
C7_FailureContained ==
    /\ [][ /\ (pc = "call_api" /\ Len(tool_log') = Len(tool_log) + 1) =>
                /\ pc' = "call_api"
                /\ error' = NoError
                /\ Len(tool_messages') = Len(tool_messages) + 1
                /\ Last(tool_messages').tool_call_id = Last(tool_log').call_id
                /\ Last(tool_messages').content # <<>>
                /\ Last(Last(tool_messages').content) # ""
           /\ (AtLimitCheck /\ pc' # pc) =>
                /\ pc' = (IF iterations <= 0 THEN "limit_llm_request" ELSE "llm")
                /\ Len(messages') = Len(messages) + Len(tool_messages)
         ]_vars
    /\ [](pc \in {"llm", "limit_llm_request"} =>
            \A t \in 1..Len(tool_log) :
                \E p \in 1..Len(messages) :
                    /\ IsToolMessage(messages[p])
                    /\ messages[p].tool_call_id = tool_log[t].call_id
                    /\ messages[p].content # <<>>)

\* the next model call is up after a turn with one succeeding tool call and
\* one failing tool call, in one turn
C7_Witness ==
    /\ pc = "llm"
    /\ Len(llm_log) = 1
    /\ Len(tool_log) = 2
    /\ \E a, b \in 1..2 : ~Failed(tool_log[a]) /\ Failed(tool_log[b]) /\ tool_log[b].raised
    /\ IsToolMessage(messages[Len(messages)])
    /\ IsToolMessage(messages[Len(messages) - 1])

\* C8: when llm_generate returns None in call_llm_with_tools the run aborts
\* with HTTPException(500): no step follows (no retry, no tool execution),
\* the endpoint returns no answer, and when it was the first model call no
\* tool was executed and no ToolMessage exists.
C8_ModelFailureFatal ==
    /\ [][ /\ (pc = "llm" /\ Last(llm_log').returned = "None") =>
                /\ pc' = "error"
                /\ error' = HTTP500
                /\ messages' = messages
                /\ tool_log' = tool_log
           /\ pc # "error"
         ]_vars
    /\ [](error = HTTP500 =>
            /\ pc = "error"
            /\ answer = NoAnswer
            /\ (Len(llm_log) = 1 =>
                   /\ tool_log = <<>>
                   /\ \A p \in 1..Len(messages) : ~IsToolMessage(messages[p])))

\* the very first model call failed
C8_Witness ==
    /\ error = HTTP500
    /\ Len(llm_log) = 1
    /\ llm_log[1].node = "llm"
    /\ llm_log[1].returned = "None"

\* C9: when llm_generate returns None in limit_llm_request_exceeded the run
\* aborts with the same HTTPException(500) and no answer is returned, the
\* tools of the earlier turns having been executed.
C9_ForcedTurnFailureFatal ==
    /\ [][ (pc = "limit_llm_request" /\ Last(llm_log').returned = "None") =>
                /\ pc' = "error"
                /\ error' = HTTP500
                /\ answer' = NoAnswer
                /\ tool_log' = tool_log
         ]_vars
    /\ []((LimitCalls # {} /\ Last(llm_log).returned = "None") =>
            /\ pc = "error"
            /\ error = HTTP500
            /\ answer = NoAnswer)

\* the forced turn failed after tools had been executed
C9_Witness ==
    /\ error = HTTP500
    /\ Last(llm_log).node = "limit_llm_request"
    /\ Last(llm_log).returned = "None"
    /\ tool_log # <<>>

\* C10: a tool call naming a tool outside the ten catalog names makes
\* get_function_by_name raise: the run aborts with NotImplementedError at that
\* call, which is not executed, gets no ToolMessage and is not skipped.
C10_UnknownToolAborts ==
    /\ Cardinality(funcs) = 10
    /\ [][ (/\ pc = "call_api"
            /\ ~AtLimitCheck
            /\ Last(messages).tool_calls[Len(tool_messages) + 1].name \notin funcs) =>
                /\ pc' = "error"
                /\ error' = NotImplemented
                /\ tool_log' = tool_log
                /\ messages' = messages
         ]_vars
    /\ [](/\ \A t \in 1..Len(tool_log) : tool_log[t].name \in funcs
          /\ \A p \in 1..Len(messages) :
                IsToolMessage(messages[p]) => messages[p].name \in funcs
          /\ \A i \in 1..Len(tool_messages) : tool_messages[i].name \in funcs
          /\ error = NotImplemented => (pc = "error" /\ answer = NoAnswer))

\* the second tool call of a turn named an unknown tool, after the first ran
C10_Witness ==
    /\ error = NotImplemented
    /\ Len(tool_log) = 1
    /\ Len(Last(messages).tool_calls) = 2
    /\ Last(messages).tool_calls[2].name = GhostTool

\* The messages of a history that carry the string tok: in their content, or
\* as the token argument of one of their tool calls.
Carrying(msgs, tok) ==
    {p \in 1..Len(msgs) :
        \/ \E c \in 1..Len(msgs[p].content) : msgs[p].content[c] = tok
        \/ \E i \in 1..Len(msgs[p].tool_calls) : msgs[p].tool_calls[i].args.token = tok}

\* C11: at every call to llm_generate, no message of the history passed to it
\* carries the request's bearer token, neither in its content nor in the
\* arguments of a tool call of an Assistant message.
C11_TokenNeverShownToModel ==
    \A k \in 1..Len(llm_log) : Carrying(llm_log[k].seen, token) = {}

\* C12: every tool execution is invoked with token equal to the credential of
\* the conversation state, whatever token argument the model's tool call had:
\* none, or one of the model's own choosing.
C12_InjectedTokenWins ==
    /\ [](\A t \in 1..Len(tool_log) : tool_log[t].args.token = token)
    /\ [][ \A supplied \in ModelTokenArgs :
             ( /\ pc = "call_api"
               /\ Len(tool_log') = Len(tool_log) + 1
               /\ Last(messages).tool_calls[Len(tool_messages) + 1].args.token = supplied )
             => Last(tool_log').args.token = token ]_vars

\* one tool call of the turn was executed with the credential, and the next
\* call of the same turn still carries the token argument the model chose
C12_Witness ==
    /\ pc = "call_api"
    /\ Len(tool_messages) = 1
    /\ Len(Last(messages).tool_calls) = 2
    /\ Last(messages).tool_calls[2].args.token = ModelTokenArg
    /\ Last(tool_log).call_id = Last(messages).tool_calls[1].id
    /\ Last(tool_log).args.token = Credential

\* C13: a run ends in exactly one of two ways: the endpoint has returned an
\* answer and no error was raised, or an error was raised and nothing was
\* returned, neither an answer nor a part of the transcript. A run that has
\* not ended in one of the two has returned nothing, has raised nothing, and
\* has a next step to take.
C13_TwoOutcomes ==
    /\ (pc = "returned") => (answer # NoAnswer /\ error = NoError)
    /\ (pc = "error") => (answer = NoAnswer /\ error # NoError)
    /\ (~Terminated) => (answer = NoAnswer /\ error = NoError /\ ENABLED Next)

\* a run that aborted after a tool had run and a ToolMessage was in the
\* history: nothing of it is returned
C13_Witness ==
    /\ pc = "error"
    /\ tool_log # <<>>
    /\ \E p \in 1..Len(messages) : IsToolMessage(messages[p])
    /\ answer = NoAnswer

\* C14: whenever a run has reached END, the last message of the history is an
\* Assistant message, not a ToolMessage and not the limit prompt, and the
\* answer the endpoint returns is the content of that message.
C14_AnswerIsLastAssistantMessage ==
    /\ (pc \in {"END", "returned"}) =>
          /\ Last(messages).role = "ai"
          /\ ~IsToolMessage(Last(messages))
          /\ Last(messages).content # limit_prompt.content
    /\ (pc = "returned") => answer = Last(messages).content

\* the run went through the forced turn: the limit prompt is in the history,
\* right before the Assistant message whose content was returned
C14_Witness ==
    /\ pc = "returned"
    /\ Len(messages) >= 2
    /\ messages[Len(messages) - 1].content = limit_prompt.content
    /\ Last(messages).role = "ai"
    /\ answer = Last(messages).content

\* C15: for every configured budget N >= 1, when the first model response
\* carries no tool calls the run goes to END and to the endpoint's return with
\* exactly one call to llm_generate and no tool execution, and the answer
\* returned is the text of that response.
C15_ImmediateAnswer ==
    ( /\ budget >= 1
      /\ Len(messages) >= 3
      /\ messages[3].role = "ai"
      /\ Len(messages[3].tool_calls) = 0 )
    => /\ pc \in {"END", "returned"}
       /\ Len(llm_log) = 1
       /\ tool_log = <<>>
       /\ Len(messages) = 3
       /\ (pc = "END") => ENABLED chat_return
       /\ (pc = "returned") => answer = messages[3].content

C15_Witness ==
    /\ pc = "returned"
    /\ budget = 2
    /\ Len(llm_log) = 1
    /\ Len(messages[3].tool_calls) = 0
    /\ answer = <<"model text ", "1">>

\* C16: for a configured budget N >= 1, when the model response that brings
\* the counter to 0 carries tool calls, the run goes to call_api and not to the
\* limit check; the tools run and their ToolMessages are appended, in order,
\* before the check; the check then routes to limit_llm_request, which makes
\* exactly one more model call; and when that call returns a message the run
\* goes to END and the endpoint returns the text of the forced turn, with no
\* error, after N+1 model calls in all.
C16_LastTurnToolsThenForcedTurn ==
    /\ [][ /\ ( /\ pc = "llm"
                /\ iterations = 1
                /\ Last(llm_log').returned = "message"
                /\ Len(Last(messages').tool_calls) > 0 )
              => (iterations' = 0 /\ pc' = "call_api" /\ llm_log' # llm_log)
           /\ (AtLimitCheck /\ iterations = 0 /\ pc' # pc)
              => /\ pc' = "limit_llm_request"
                 /\ llm_log' = llm_log
                 /\ tool_log' = tool_log
                 /\ Len(tool_log) >= Len(Last(messages).tool_calls)
                 /\ AnsweredInOrder(Len(messages))'
                 /\ Len(messages') = Len(messages) + Len(Last(messages).tool_calls)
           /\ ( /\ pc = "limit_llm_request"
                /\ budget >= 1
                /\ Last(llm_log').returned = "message" )
              => /\ pc' = "END"
                 /\ Len(llm_log') = Len(llm_log) + 1
                 /\ error' = NoError
                 /\ Last(messages').id = Len(llm_log')
         ]_vars
    /\ []( (pc = "returned" /\ budget >= 1 /\ LimitCalls # {})
            => /\ LimitCalls = {budget + 1}
               /\ Len(llm_log) = budget + 1
               /\ Len(tool_log) >= budget
               /\ answer = <<"model text ", NumStr(budget + 1)>>
               /\ error = NoError )

\* budget 2: two turns with tool calls, all of them executed, then the forced
\* turn, whose text (without tool calls) is what the endpoint returned
C16_Witness ==
    /\ pc = "returned"
    /\ budget = 2
    /\ iterations = 0
    /\ Len(tool_log) >= 2
    /\ Len(llm_log) = 3
    /\ llm_log[3].node = "limit_llm_request"
    /\ Len(Last(messages).tool_calls) = 0
    /\ answer = <<"model text ", "3">>

\* C18: a tool function whose remote call fails, by a non-2xx response or by
\* a timeout or connection error with no response, returns an error string
\* and does not raise.
C18_ToolReturnsErrorString ==
    \A t \in 1..Len(tool_log) : Failed(tool_log[t]) => ~tool_log[t].raised

\* C19: llm_generate returns None for every exception of the provider or the
\* transport during the model call, and lets none propagate to the node that
\* called it.
C19_NoProviderExceptionPropagates ==
    \A k \in 1..Len(llm_log) : llm_log[k].returned # "raise"

\* C20: whenever update_task or update_collection sends its PATCH, the keys
\* of the body are exactly the names listed in updated_fields; every listed
\* field the caller passed a value for is in the body with that value (a
\* listed field the caller passed no value for has the parameter's default);
\* and no field outside updated_fields is in the body, passed or not, so the
\* default of an unlisted field is never forwarded.
C20_PatchBodyIsUpdatedFields ==
    (update_call.status = "done" /\ update_call.sent) =>
        LET body == update_call.body
            passed == update_call.passed
            defaults == UpdateDefaults(update_call.tool)
        IN  /\ DOMAIN body = Range(update_call.updated_fields)
            /\ \A f \in DOMAIN body :
                  body[f] = IF passed[f] # Unset THEN passed[f] ELSE defaults[f]
            /\ \A f \in DOMAIN defaults :
                  f \notin Range(update_call.updated_fields) => f \notin DOMAIN body

\* update_task with updated_fields = ["title"], a title and a description
\* passed and completed not passed: the PATCH carried the title alone
C20_Witness ==
    /\ update_call.status = "done"
    /\ update_call.sent
    /\ update_call.tool = "update_task"
    /\ update_call.updated_fields = <<"title">>
    /\ update_call.passed.title = "new title"
    /\ update_call.passed.description = "new description"
    /\ update_call.passed.completed = Unset
    /\ DOMAIN update_call.body = {"title"}
    /\ update_call.body.title = "new title"

\* The state f is the one request r built and only r's steps have touched:
\* r's token, r's System and User message at the head of the history, every
\* tool execution with r's token, the first model call with exactly r's two
\* messages, and a counter that went down once per model response of r.
OwnState(r, f) ==
    /\ f.token = TokenOf(r)
    /\ Len(f.messages) >= 2
    /\ SubSeq(f.messages, 1, 2) = InitialMessages(r)
    /\ \A t \in 1..Len(f.tool_log) : f.tool_log[t].args.token = TokenOf(r)
    /\ (f.llm_log # <<>>) => (f.llm_log[1].seen = InitialMessages(r))
    /\ f.iterations = f.budget -
          Cardinality({k \in 1..Len(f.llm_log) :
                          f.llm_log[k].node = "llm" /\ f.llm_log[k].returned = "message"})

\* C17: of two chat requests running concurrently, each one's history,
\* counter and token are changed by its own steps only: a step of the running
\* request and a switch of the event loop leave the state of every other
\* request as it was, every tool execution of a request carries that
\* request's token, and the first model call of a request sees exactly its
\* own System and User message, in every interleaving, also when the other
\* request has already ended.
C17_RequestsAreIsolated ==
    /\ [](\A r \in Requests : OwnState(r, FrameOf(r)))
    /\ [][ \A r \in Requests :
              (r # cur \/ cur' # cur) => FrameOf(r)' = FrameOf(r) ]_vars

\* request 2 runs and has executed a tool while request 1 is suspended in the
\* middle of its tool loop, after its first tool execution
C17_Witness ==
    /\ cur = 2
    /\ tool_log # <<>>
    /\ Last(tool_log).args.token = TokenOf(2)
    /\ frames[state_key(1)].pc = "call_api"
    /\ Len(frames[state_key(1)].tool_log) = 1
    /\ Len(Last(frames[state_key(1)].messages).tool_calls) = 2
    /\ frames[state_key(1)].tool_log[1].args.token = TokenOf(1)

\* The number of ToolMessages of the history h that answer the tool call id.
Answers(h, id) ==
    Cardinality({q \in 1..Len(h) : IsToolMessage(h[q]) /\ h[q].tool_call_id = id})

\* Every tool call of every Assistant message of h has exactly one ToolMessage.
AllAnswered(h) ==
    \A p \in 1..Len(h) : \A i \in 1..Len(h[p].tool_calls) :
        Answers(h, h[p].tool_calls[i].id) = 1

\* C21: the history passed to every call of llm_generate has, for each tool
\* call of each of its Assistant messages, exactly one ToolMessage with that
\* tool_call_id; and whenever a model call is the next step, no tool
\* execution of the turn is outstanding: the loop's local list is empty and
\* every tool call of the history is answered.
C21_ToolCallsAnsweredBeforeModelCall ==
    /\ \A k \in 1..Len(llm_log) : AllAnswered(llm_log[k].seen)
    /\ (pc \in {"llm", "limit_llm_request"}) =>
          (tool_messages = <<>> /\ AllAnswered(messages))

\* the second model call of a run got a history in which the two tool calls
\* of the first response are answered
C21_Witness ==
    /\ Len(llm_log) >= 2
    /\ Len(llm_log[2].seen) = 5
    /\ Len(llm_log[2].seen[3].tool_calls) = 2
    /\ IsToolMessage(llm_log[2].seen[4])
    /\ IsToolMessage(llm_log[2].seen[5])

\* C22: over the steps of a run the history only grows at its end: the
\* message at every position is the same in the next state, its tool-call
\* arguments included, and none is removed.
C22_HistoryAppendOnly ==
    [][ /\ Len(messages') >= Len(messages)
        /\ \A p \in 1..Len(messages) : messages'[p] = messages[p] ]_vars

\* C23: every model call of node llm takes exactly one off the counter,
\* also a call that fails.
C23_DecrementRegardlessOfOutcome ==
    [][ (pc = "llm" /\ Len(llm_log') = Len(llm_log) + 1)
            => iterations' = iterations - 1 ]_vars

\* C23, as the code has it: a model call of node llm that returns a response
\* takes exactly one off the counter; a call that fails (None, or an exception
\* llm_generate lets through) aborts the run and leaves the counter as it was.
C23_DecrementOnResponseOnly ==
    [][ (pc = "llm" /\ Len(llm_log') = Len(llm_log) + 1)
            => IF Last(llm_log').returned = "message"
               THEN iterations' = iterations - 1
               ELSE iterations' = iterations /\ pc' = "error" ]_vars

\* two model calls of node llm, the second one failed: the counter went down
\* once
C23_Witness ==
    /\ pc = "error"
    /\ error = HTTP500
    /\ Len(llm_log) = 2
    /\ llm_log[2].node = "llm"
    /\ llm_log[2].returned = "None"
    /\ iterations = budget - 1

\* The model calls of the run that were made with the tools bound.
ToolsEnabledCalls == {k \in 1..Len(llm_log) : llm_log[k].with_tools}

\* No model call failed, and the response of every tools-enabled call is in
\* the history with at least one tool call, all of them of the catalog.
EveryResponseAsksForKnownTools ==
    /\ \A k \in 1..Len(llm_log) : llm_log[k].returned = "message"
    /\ \A k \in ToolsEnabledCalls :
          \E p \in 1..Len(messages) :
              /\ messages[p].role = "ai"
              /\ messages[p].id = k
              /\ Len(messages[p].tool_calls) >= 1
              /\ \A i \in 1..Len(messages[p].tool_calls) :
                    messages[p].tool_calls[i].name \in funcs

\* C24: for a budget N >= 1, a run in which every tools-enabled model
\* response carries at least one known tool call and no model call fails has,
\* when the endpoint returns, made exactly N tools-enabled model calls and
\* entered limit_llm_request exactly once, N+1 model calls in all.
C24_BudgetEndsTheLoop ==
    (pc = "returned" /\ budget >= 1 /\ EveryResponseAsksForKnownTools)
    => /\ Cardinality(ToolsEnabledCalls) = budget
       /\ Cardinality(LimitCalls) = 1
       /\ Len(llm_log) = budget + 1

\* What holds of such a run: N calls of node llm, then the one forced call.
CallsByNodeUnderBudget ==
    (pc = "returned" /\ budget >= 1 /\ EveryResponseAsksForKnownTools)
    => /\ Cardinality({k \in 1..Len(llm_log) : llm_log[k].node = "llm"}) = budget
       /\ LimitCalls = {budget + 1}

\* The ToolMessages of the history written for a tool execution that failed
\* (failed = TRUE) or that succeeded (failed = FALSE).
ToolMessagesOf(failed) ==
    {messages[p] : p \in {q \in 1..Len(messages) :
        /\ IsToolMessage(messages[q])
        /\ \E t \in 1..Len(tool_log) :
              /\ tool_log[t].call_id = messages[q].tool_call_id
              /\ Failed(tool_log[t]) = failed}}

\* C25: the ToolMessage written for a failed tool execution begins with a
\* prefix that marks the failure: no ToolMessage of a successful execution
\* begins with the same text.
C25_FailurePrefix ==
    \A m \in ToolMessagesOf(TRUE) : \A n \in ToolMessagesOf(FALSE) :
        m.content[1] # n.content[1]


\* the five operations on the two entities, by name
CrudNames ==
    {"create_task", "read_task", "task_list", "update_task", "delete_task"} \cup
    {"create_collection", "read_collection", "collection_list",
     "update_collection", "delete_collection"}

\* C27: the names of the tools bound to the model are the names
\* get_function_by_name resolves, and both are exactly the ten operations
\* create, read, list, update and delete of task and collection; every
\* advertised name resolves, no other name does, and so every tool that ran
\* was an advertised one.
C27_AdvertisedEqualsResolved ==
    /\ Range(tools) = funcs
    /\ Range(tools) = CrudNames
    /\ Len(tools) = 10 /\ Cardinality(Range(tools)) = 10
    /\ \A name \in Range(tools) : get_function_by_name(name) = name
    /\ \A name \in (CrudNames \cup ModelNames) \ Range(tools) :
            get_function_by_name(name) = NotImplemented
    /\ \A t \in 1..Len(tool_log) : tool_log[t].name \in Range(tools)
    /\ error = NotImplemented =>
            \E i \in 1..Len(Last(messages).tool_calls) :
                Last(messages).tool_calls[i].name \notin Range(tools)

\* a run that executed an advertised tool and ended with an answer
C27_Witness ==
    /\ pc = "returned"
    /\ error = NoError
    /\ Len(tool_log) >= 1
    /\ tool_log[1].name \in Range(tools)
    /\ get_function_by_name(tool_log[1].name) = tool_log[1].name

\* C30: with a budget N <= 0 the run still makes the model call of node llm,
\* with tools; when the response asks for tools, every one of its tool calls is
\* executed before check_gemini_limit_request, which finds the counter
\* negative and routes to limit_llm_request; the run makes at most two model
\* calls, the second one by limit_llm_request.
C30_NonPositiveBudget ==
    /\ []( budget <= 0 =>
            /\ Len(llm_log) <= 2
            /\ (pc # "llm" <=> Len(llm_log) >= 1)
            /\ Len(llm_log) >= 1 =>
                    (llm_log[1].node = "llm" /\ llm_log[1].with_tools)
            /\ Len(llm_log) = 2 => llm_log[2].node = "limit_llm_request"
            /\ (AtLimitCheck \/ pc = "limit_llm_request") =>
                    /\ iterations = budget - 1
                    /\ iterations < 0
                    /\ Len(tool_log) = Len(messages[3].tool_calls) )
    /\ [][ (budget <= 0 /\ AtLimitCheck /\ pc' # pc) =>
                /\ pc' = "limit_llm_request"
                /\ Len(tool_log) = Len(Last(messages).tool_calls)
                /\ Len(llm_log) = 1
         ]_vars

\* budget 0: the first response asked for two tools, both ran, the check saw
\* -1 and the forced turn was the second and last model call
C30_Witness ==
    /\ pc = "returned"
    /\ budget = 0
    /\ iterations = -1
    /\ Len(llm_log) = 2
    /\ llm_log[2].node = "limit_llm_request"
    /\ Len(tool_log) = 2

---------------------------------------------------------------------------
\* The Task Manager's store (StoreSpec).

AllRequests == UNION {Requests_of(op) : op \in ReadOps \cup WriteOps}
ReadRequests == UNION {Requests_of(op) : op \in ReadOps}

\* the rows of a table that belong to other users than user_id
OthersRows(rows, user_id) == {x \in rows : x.user_id # user_id}

\* Two requests of one user served one after the other, first a then b: the
\* final store and the response to each.
InOrder(s, user_id, a, b) ==
    LET first == serve(s, user_id, a)
        second == serve(first.store, user_id, b)
    IN  [store |-> second.store, of_a |-> first.response, of_b |-> second.response]

\* C26 (as stated): the tool calls of one turn are independent: served in
\* either order against the user's store, two requests get the same responses
\* and leave the same store.
C26_ToolCallsCommute ==
    \A user_id \in Users : \A a, b \in AllRequests :
        LET ab == InOrder(store, user_id, a, b)
            ba == InOrder(store, user_id, b, a)
        IN  /\ ab.store = ba.store
            /\ ab.of_a = ba.of_b
            /\ ab.of_b = ba.of_a

\* C26 (amended): the read-only requests (read_task, task_list,
\* read_collection, collection_list) are independent: each leaves the store as
\* it is, and in either order each gets the response it gets alone.
C26_ReadsCommute ==
    \A user_id \in Users : \A a, b \in ReadRequests :
        LET ab == InOrder(store, user_id, a, b)
            ba == InOrder(store, user_id, b, a)
        IN  /\ ab.store = store /\ ba.store = store
            /\ ab.of_a = serve(store, user_id, a).response
            /\ ab.of_b = serve(store, user_id, b).response
            /\ ab.of_a = ba.of_b
            /\ ab.of_b = ba.of_a

\* a task was just read, and user A has a task in one of its collections
\* that read_task shows with the collection
C26_Witness ==
    /\ last_op.op = "read_task"
    /\ \E t \in store.tasks, c \in store.collections :
            /\ t.user_id = "A" /\ c.user_id = "A" /\ t.collection_id = c.id
            /\ read_task(store, "A", t.id).response = Response(Status200, {t}, {c})

\* C28: a request of one user never reads, modifies, deletes or attaches a
\* task to a task or collection of another user, create_task and update_task
\* with another user's collection_id included.
C28_CrossUserIsolation ==
    \A user_id \in Users : \A r \in AllRequests :
        LET served == serve(store, user_id, r)
        IN  /\ OthersRows(served.store.tasks, user_id) = OthersRows(store.tasks, user_id)
            /\ OthersRows(served.store.collections, user_id) =
                    OthersRows(store.collections, user_id)
            /\ OthersRows(served.response.tasks, user_id) = {}
            /\ OthersRows(served.response.collections, user_id) = {}
            /\ \A t \in served.store.tasks, c \in served.store.collections :
                    (t \notin store.tasks /\ t.collection_id = c.id)
                        => t.user_id = c.user_id

\* C29: create_collection with a list of task ids answers 200, adds the one
\* new collection, sets collection_id to it on exactly the listed tasks that
\* exist and belong to the requesting user, and leaves every other task, listed
\* or not, as it was.
C29_CreateCollectionAttachesOwnListedTasks ==
    \A user_id \in Users : \A task_ids \in SUBSET ListedTaskIds :
        LET served == create_collection(store, user_id, task_ids)
            new == [id |-> NextId(store.collections), user_id |-> user_id]
            own_listed == {t \in store.tasks : t.id \in task_ids /\ t.user_id = user_id}
        IN  /\ served.response.status = Status200
            /\ served.response.collections = {new}
            /\ served.store.collections = store.collections \cup {new}
            /\ served.store.tasks =
                    (store.tasks \ own_listed) \cup
                    {[t EXCEPT !.collection_id = new.id] : t \in own_listed}

\* user A created collection 1 listing its own task 1, user B's task 2 and
\* the id 3 of no task: task 1 is in the collection, task 2 is as it was
C29_Witness ==
    /\ last_op = [op |-> "create_collection", tasks |-> {1, 2, 3}]
    /\ store.collections = {[id |-> 1, user_id |-> "A"]}
    /\ store.tasks = {[id |-> 1, user_id |-> "A", collection_id |-> 1],
                      [id |-> 2, user_id |-> "B", collection_id |-> 0]}

---------------------------------------------------------------------------
\* An unknown tool in the middle of a turn.

\* the ids of the tool calls i..k of the Assistant message m
CallIds(m, i, k) == {m.tool_calls[x].id : x \in i..k}

\* The tool calls 1..j-1 of the last message are the last j-1 executions, in
\* emitted order, and no call from j on was executed.
ExecutedUpTo(j) ==
    LET m == Last(messages)
        n == Len(tool_log)
    IN  /\ n >= j - 1
        /\ \A i \in 1..(j - 1) : tool_log[n - (j - 1) + i].call_id = m.tool_calls[i].id
        /\ \A t \in 1..n : tool_log[t].call_id \notin CallIds(m, j, Len(m.tool_calls))

\* C31: when the j-th tool call of a turn names an unknown tool, the calls
\* 1..j-1 of the turn have been executed and stay executed, the calls after j
\* never are, and the run aborts: no ToolMessage of the turn reaches the
\* history or the caller, and nothing is executed afterwards.
C31_UnknownToolMidTurn ==
    /\ [][ (/\ pc = "call_api"
            /\ ~AtLimitCheck
            /\ Last(messages).tool_calls[Len(tool_messages) + 1].name \notin Range(tools)) =>
                /\ ExecutedUpTo(Len(tool_messages) + 1)
                /\ pc' = "error"
                /\ error' = NotImplemented
                /\ tool_log' = tool_log
                /\ tool_messages' = <<>>
                /\ messages' = messages
                /\ answer' = NoAnswer
         ]_vars
    /\ [][ error = NotImplemented =>
                (tool_log' = tool_log /\ messages' = messages /\ answer' = NoAnswer) ]_vars
    /\ []( error = NotImplemented =>
            /\ pc = "error"
            /\ tool_messages = <<>>
            /\ Len(Last(messages).tool_calls) > 0
            /\ \A p \in 1..Len(messages) :
                    IsToolMessage(messages[p]) =>
                        messages[p].tool_call_id \notin
                            CallIds(Last(messages), 1, Len(Last(messages).tool_calls))
            /\ \E j \in 1..Len(Last(messages).tool_calls) :
                    /\ Last(messages).tool_calls[j].name \notin Range(tools)
                    /\ ExecutedUpTo(j) )

\* second turn: its first tool call ran, its second one named an unknown tool;
\* the tool of the first turn and the first one of this turn stay executed
C31_Witness ==
    /\ error = NotImplemented
    /\ Len(llm_log) = 2
    /\ Len(tool_log) = 2
    /\ Len(Last(messages).tool_calls) = 2
    /\ Last(messages).tool_calls[2].name = GhostTool
    /\ tool_log[2].call_id = Last(messages).tool_calls[1].id

---------------------------------------------------------------------------
\* The limit prompt in the history.

\* the places of a history that hold the limit prompt
PromptPlaces(msgs) ==
    {p \in 1..Len(msgs) :
        msgs[p].role = limit_prompt.role /\ msgs[p].content = limit_prompt.content}

\* C32: in a run that passes through limit_llm_request the forced model call
\* sees the limit prompt exactly once, as the last message and right after the
\* last ToolMessage; and once the forced response is in, the history holds the
\* prompt exactly once, right after the last ToolMessage and right before the
\* final Assistant message. No other run's history holds the prompt.
C32_LimitPromptOnce ==
    /\ Cardinality(LimitCalls) <= 1
    /\ \A k \in LimitCalls :
          LET seen == llm_log[k].seen
          IN  /\ PromptPlaces(seen) = {Len(seen)}
              /\ Len(seen) >= 2
              /\ IsToolMessage(seen[Len(seen) - 1])
    /\ (LimitCalls # {} /\ Last(llm_log).returned = "message") =>
          /\ Len(messages) >= 3
          /\ PromptPlaces(messages) = {Len(messages) - 1}
          /\ IsToolMessage(messages[Len(messages) - 2])
          /\ Last(messages).role = "ai"
          /\ Last(messages).id = Len(llm_log)
    /\ (LimitCalls # {} /\ Last(llm_log).returned # "message") =>
          /\ pc = "error"
          /\ PromptPlaces(messages) = {Len(messages)}
    /\ LimitCalls = {} => PromptPlaces(messages) = {}

\* the run returned the forced turn's answer: tool messages, then the prompt
\* once, then the answer's message
C32_Witness ==
    /\ pc = "returned"
    /\ LimitCalls # {}
    /\ Len(messages) >= 3
    /\ PromptPlaces(messages) = {Len(messages) - 1}
    /\ PromptPlaces(Last(llm_log).seen) = {Len(messages) - 1}
    /\ IsToolMessage(messages[Len(messages) - 2])

---------------------------------------------------------------------------
\* An update tool called with a name it cannot update.

\* some entry of the call's updated_fields is no key of the tool's data
ListsUnknownField ==
    \E i \in 1..Len(update_call.updated_fields) :
        update_call.updated_fields[i] \notin DOMAIN UpdateDefaults(update_call.tool)

\* what call_task_manager_api makes of the finished call of update_call, were
\* it the tool call with the given id
ContainedUpdate(id) ==
    LET got == contained([raised |-> update_call.raised, value |-> update_call.result])
    IN  [aborts |-> got.aborts,
         message |-> tool_message_for([id |-> id, name |-> update_call.tool], got.result)]

\* C33: update_task or update_collection called with an updated_fields entry
\* that is none of the tool's updatable fields sends no HTTP request: building
\* data_to_update raises KeyError; call_task_manager_api catches it, its text
\* becomes the content of the call's ToolMessage, and the loop goes on.
C33_UnknownUpdatedFieldSendsNothing ==
    (update_call.status = "done") =>
        /\ update_call.sent <=> ~ListsUnknownField
        /\ ListsUnknownField =>
              /\ update_call.body = NoBody
              /\ update_call.raised
              /\ update_call.result = <<KeyError>>
              /\ ~ContainedUpdate(11).aborts
              /\ ContainedUpdate(11).message =
                    ToolMessage(<<"Function result is: ", KeyError>>, 11, update_call.tool)

\* update_collection with updated_fields = ["name", "id"] and a name passed:
\* nothing was sent, although the first entry is a field of the tool
C33_Witness ==
    /\ update_call.status = "done"
    /\ update_call.tool = "update_collection"
    /\ update_call.updated_fields = <<"name", "id">>
    /\ update_call.passed.name = "new name"
    /\ ~update_call.sent
    /\ update_call.result = <<KeyError>>

---------------------------------------------------------------------------
\* One tool call at a time.

\* The tool calls of the turn in hand that have been awaited: they are the
\* first Len(tool_messages) ones, executed last and in emitted order, each
\* with its ToolMessage collected at its place.
AwaitedPrefix ==
    LET calls == Last(messages).tool_calls
        done == Len(tool_messages)
        n == Len(tool_log)
    IN  /\ done <= Len(calls)
        /\ n >= done
        /\ \A i \in 1..done :
              /\ tool_log[n - done + i].call_id = calls[i].id
              /\ tool_messages[i].tool_call_id = calls[i].id
        /\ \A t \in 1..n : \A i \in (done + 1)..Len(calls) :
              tool_log[t].call_id # calls[i].id

\* C34: within one turn call_task_manager_api executes the tool calls one at a
\* time in emitted order: a step executes at most one tool call, namely the
\* first one not yet awaited, and only when every earlier call of the turn has
\* completed or failed and left its ToolMessage; no call is executed twice.
C34_OneToolCallAtATime ==
    /\ [](pc = "call_api" => AwaitedPrefix)
    /\ [](\A t, u \in 1..Len(tool_log) : tool_log[t].call_id = tool_log[u].call_id => t = u)
    /\ [][ tool_log' # tool_log =>
              /\ pc = "call_api"
              /\ Len(tool_log') = Len(tool_log) + 1
              /\ SubSeq(tool_log', 1, Len(tool_log)) = tool_log
              /\ Len(tool_messages) < Len(Last(messages).tool_calls)
              /\ Last(tool_log').call_id =
                    Last(messages).tool_calls[Len(tool_messages) + 1].id
              /\ tool_messages' = Append(tool_messages, Last(tool_messages'))
              /\ Last(tool_messages').tool_call_id = Last(tool_log').call_id
         ]_vars

\* the first tool call of a turn failed, and the second one ran after it
C34_Witness ==
    /\ pc = "call_api"
    /\ Len(Last(messages).tool_calls) = 2
    /\ Len(tool_messages) = 2
    /\ Len(tool_log) = 2
    /\ Failed(tool_log[1])
    /\ tool_log[1].call_id = Last(messages).tool_calls[1].id
    /\ tool_log[2].call_id = Last(messages).tool_calls[2].id
===========================================================================
